---- MODULE Spec2Model ----
(***************************************************************************)
(* Model of feupy's persistent html cache (src/feupy/cache.py): the store, *)
(* the url classification and treatments, get_html, reset,                 *)
(* remove_invalid_entries and get_html_async with its worker pool.         *)
(*                                                                         *)
(* Time is counted in days.  An html document is a record: where it came   *)
(* from (src), which revision of the page it is (rev), which parts of the  *)
(* page it has (shape) and which reduction has been applied to it (form).  *)
(***************************************************************************)
EXTENDS Integers, Sequences, FiniteSets, TLC

\* ------------------------------------------------------------ bounds ----
MaxTicks == 1       \* days the clock may advance in one behaviour
MaxLen == 2         \* longest urls argument of get_html_async
MaxWorkers == 2     \* largest n_workers argument of get_html_async
MaxCalls == 3       \* top-level calls of a caller that makes several

\* ------------------------------------------------------------- urls -----
\* The url universe.  "uc": a curricular unit page, "te": a teacher page,
\* "st": a student page, "pg": any other page, "mv": a page of no class
\* that the origin redirects to "te", "ut": a url that holds both the
\* curricular unit and the teacher fragment, "ts": one that holds both the
\* teacher and the student fragment.
Urls == {"uc", "te", "st", "pg", "mv", "ut", "ts"}

\* The fragments each url contains (the `in url` tests of the match rules).
Fragments(url) ==
    CASE url = "uc" -> {"ucurr_geral.ficha_uc_view"}
      [] url = "te" -> {"func_geral.formview"}
      [] url = "st" -> {"fest_geral.cursos_list"}
      [] url = "ut" -> {"ucurr_geral.ficha_uc_view", "func_geral.formview"}
      [] url = "ts" -> {"func_geral.formview", "fest_geral.cursos_list"}
      [] OTHER -> {}

is_curricular_unit(url) == "ucurr_geral.ficha_uc_view" \in Fragments(url)

is_teacher(url) == "func_geral.formview" \in Fragments(url)

is_student(url) == "fest_geral.cursos_list" \in Fragments(url)

\* ------------------------------------------------------------- html -----
\* full: the page has everything the treatments look for; noyear: no
\* "dddd/dddd" academic year in the text; bare: the div a class-specific
\* trim extracts is missing.
Shapes == {"full", "noyear", "bare"}

NoHtml == [src |-> "", rev |-> 0, shape |-> "", form |-> ""]

\* str(None)
NoneStr == [src |-> "", rev |-> 0, shape |-> "", form |-> "None"]

\* The text of a page as the origin serves it.
RawHtml(src, rev, shape) == [src |-> src, rev |-> rev, shape |-> shape, form |-> "raw"]

trim_html(html) == [html EXCEPT !.form = "clean"]

\* soup.find("div", id envolvente) is None on a bare page and None.find raises
trim_curricular_unit_raises(html) == html.shape = "bare"

trim_curricular_unit(html) == [html EXCEPT !.form = "uc"]

trim_teacher(html) == IF html.shape = "bare" THEN NoneStr ELSE [html EXCEPT !.form = "teacher"]

trim_student(html) == IF html.shape = "bare" THEN NoneStr ELSE [html EXCEPT !.form = "student"]

\* re.findall(...)[0] raises IndexError when the text has no academic year
parse_academic_year_raises(html) == html.shape = "noyear"

\* ------------------------------------------------------------- time -----
Min(a, b) == IF a <= b THEN a ELSE b

DaysPerYear == 365

\* day of the year (from 0) of 1 September and of 20 September
SeptemberFirst == 31 + 28 + 31 + 30 + 31 + 30 + 31 + 31

SeptemberTwentieth == SeptemberFirst + 19

\* The clock at Init: 31 August of year 0.
StartDay == SeptemberFirst - 1

get_current_academic_year(t) ==
    IF t % DaysPerYear >= SeptemberFirst THEN t \div DaysPerYear ELSE (t \div DaysPerYear) - 1

\* random.expovariate draws, in days: any non-negative number
Draws == {0, 1000}

\* The lifetime without the min(lifetime, half_life * 4)
random_radioactive_lifetime_uncut(half_life, cutoff, draw) == draw

random_radioactive_lifetime(half_life, cutoff, draw) ==
    IF cutoff THEN Min(draw, half_life * 4) ELSE draw

\* -------------------------------------------------------- treatments ----
\* Each treatment is split in three: whether it raises, the timeout and
\* the html of the tuple it returns.
default_treatment(html, t, draw) ==
    <<t + random_radioactive_lifetime(2, TRUE, draw), trim_html(html)>>

curricular_unit_treatment_raises(html) ==
    ~parse_academic_year_raises(html) /\ trim_curricular_unit_raises(html)

curricular_unit_treatment(html, t, draw) ==
    <<t + random_radioactive_lifetime(6 * 30, TRUE, draw),
      IF parse_academic_year_raises(html) THEN html ELSE trim_curricular_unit(html)>>

teacher_treatment(html, t, draw) ==
    <<t + random_radioactive_lifetime(2 * 30, TRUE, draw), trim_teacher(html)>>

student_treatment(html, t, draw) ==
    <<(get_current_academic_year(t) + 1) * DaysPerYear + SeptemberTwentieth, trim_student(html)>>

\* _custom_treatments, in insertion order
custom_treatments == <<"curricular_unit", "teacher", "student">>

match_rule(rule, url) ==
    CASE rule = "curricular_unit" -> is_curricular_unit(url)
      [] rule = "teacher" -> is_teacher(url)
      [] rule = "student" -> is_student(url)

\* The loop without its break: the last rule that matches wins
ClassifyLast(url) ==
    LET hits == {i \in 1..Len(custom_treatments) : match_rule(custom_treatments[i], url)}
    IN IF hits = {} THEN "default"
       ELSE custom_treatments[CHOOSE i \in hits : \A j \in hits : i >= j]

\* The for ... break ... else loop over _custom_treatments: the first rule
\* that matches, or "default".
Classify(url) ==
    LET hits == {i \in 1..Len(custom_treatments) : match_rule(custom_treatments[i], url)}
    IN IF hits = {} THEN "default"
       ELSE custom_treatments[CHOOSE i \in hits : \A j \in hits : i <= j]

TreatmentRaises(url, html) ==
    Classify(url) = "curricular_unit" /\ curricular_unit_treatment_raises(html)

Treatment(url, html, t, draw) ==
    CASE Classify(url) = "curricular_unit" -> curricular_unit_treatment(html, t, draw)
      [] Classify(url) = "teacher" -> teacher_treatment(html, t, draw)
      [] Classify(url) = "student" -> student_treatment(html, t, draw)
      [] OTHER -> default_treatment(html, t, draw)

\* ------------------------------------------------------------ origin ----
\* What requests answers: the request raised (err), or a status, the url
\* of the final response and its text.
Redirect(url) == IF url = "mv" THEN "te" ELSE url

OriginRev == 1

\* The shapes in which the origin may serve the page at url
PageShapes(url) ==
    CASE url = "uc" -> Shapes
      [] url \in {"te", "st"} -> {"full", "bare"}
      [] OTHER -> {"full"}

Responses(url) ==
    {[err |-> TRUE, status_code |-> 0, url |-> url, text |-> NoHtml]}
    \cup {[err |-> FALSE, status_code |-> 404, url |-> Redirect(url),
           text |-> RawHtml(Redirect(url), OriginRev, "bare")]}
    \cup {[err |-> FALSE, status_code |-> 200, url |-> Redirect(url),
           text |-> RawHtml(Redirect(url), OriginRev, s)] : s \in PageShapes(Redirect(url))}

NoResponse == [err |-> FALSE, status_code |-> 0, url |-> "", text |-> NoHtml]

\* get_html without its raise_for_status() line
raise_for_status_skipped(request) == FALSE

\* request.raise_for_status()
raise_for_status(request) == request.status_code >= 400 /\ request.status_code < 600

\* ------------------------------------------------------------- state ----
VARIABLES
    cache,        \* the shelf: url -> <<timeout, html>>
    loaded,       \* cache != None
    opens,        \* how many times shelve.open has returned a shelf
    closers,      \* how many times cache.close has been registered with atexit
    disk,         \* the shelf file: what a process that opens it reads
    threads,      \* callers on threads of their own: where each is in its call
    now,          \* the last reading of time.time()
    pc,           \* where the caller is: idle, populate, unwind, generator
    budget,       \* top-level calls the caller has yet to make
    op,           \* the last top-level call: its name, arguments and time
    ret,          \* what the last top-level call returned or raised
    urls,         \* get_html_async: tuple(urls)
    use_cache,    \* get_html_async: its use_cache argument
    n_workers,    \* get_html_async: its n_workers argument
    work_queue,   \* get_html_async: the urls to fetch
    futures,      \* get_html_async: one future per url of work_queue
    idx,          \* get_html_async: the future the for loop waits for
    turns,        \* get_html_async: how each turn of the for loop went
    gen,          \* the returned generator: the url it requests next
    out,          \* the returned generator: what it has yielded or raised
    calls,        \* origin requests issued per url since the call began
    cache0,       \* the shelf when the call began
    origin        \* what the origin has answered for each url

vars == <<cache, loaded, opens, closers, disk, threads, now, pc, budget, op, ret, urls, use_cache, n_workers,
          work_queue, futures, idx, turns, gen, out, calls, cache0, origin>>

bulk == <<urls, use_cache, n_workers, work_queue, futures, idx, turns, gen, out>>

Return(html) == [kind |-> "return", html |-> html, exc |-> ""]

Raise(exc) == [kind |-> "raise", html |-> NoHtml, exc |-> exc]

Put(c, url, entry) == [k \in DOMAIN c \cup {url} |-> IF k = url THEN entry ELSE c[k]]

\* A validity check that never finds an entry timed out
cache_entry_is_valid_always(c, key, t) == TRUE

cache_entry_is_valid(c, key, t) == c[key][1] > t

\* ----------------------------------------------------------- get_html ----
\* Hit with the use_cache flag read the wrong way round
HitFlagInverted(c, url, uc, t) == url \in DOMAIN c /\ c[url][1] > t /\ ~uc

\* Hit without the use_cache test
HitAnyFlag(c, url, uc, t) == url \in DOMAIN c /\ c[url][1] > t

\* The branch of line 219: served from the cache
Hit(c, url, uc, t) == url \in DOMAIN c /\ cache_entry_is_valid(c, url, t) /\ uc

\* get_html with the treatment wrapped in a try that swallows its error
get_html_exc_swallow(c, url, uc, t, request) ==
    IF Hit(c, url, uc, t) THEN ""
    ELSE IF request.err THEN "ConnectionError"
    ELSE IF raise_for_status(request) THEN "HTTPError"
    ELSE ""

\* The exception get_html raises, "" when it returns
get_html_exc(c, url, uc, t, request) ==
    IF Hit(c, url, uc, t) THEN ""
    ELSE IF request.err THEN "ConnectionError"
    ELSE IF raise_for_status(request) THEN "HTTPError"
    ELSE IF TreatmentRaises(url, request.text) THEN "AttributeError"
    ELSE ""

\* The cache get_html leaves
get_html_cache(c, url, uc, t, request, draw) ==
    IF Hit(c, url, uc, t) \/ get_html_exc(c, url, uc, t, request) # ""
    THEN c
    ELSE Put(c, url, Treatment(url, request.text, t, draw))

\* What get_html returns or raises
get_html_result(c, url, uc, t, request, draw) ==
    IF get_html_exc(c, url, uc, t, request) # ""
    THEN Raise(get_html_exc(c, url, uc, t, request))
    ELSE Return(get_html_cache(c, url, uc, t, request, draw)[url][2])

\* ------------------------------------------------------ module state ----
EmptyCache == [k \in {} |-> <<0, NoHtml>>]

Horizon == StartDay + MaxTicks

\* What an earlier process left in the shelf file for url: nothing, an
\* entry that has timed out, or one that times out after the next day.
\* Its html is what the url's treatment makes of revision 0 of the page.
OldHtml(url) == Treatment(url, RawHtml(Redirect(url), 0, "full"), StartDay, 0)[2]

StoredUrls == {"uc", "pg"}

InitStores ==
    UNION {[D -> {StartDay, StartDay + 1}] : D \in SUBSET StoredUrls}

NoCalls == [k \in Urls |-> 0]

NoOp == [name |-> "", url |-> "", urls |-> <<>>, use_cache |-> TRUE, t |-> StartDay]

\* Threads other than the caller's: none has been started
Threads == {1, 2}

NoThread == [pc |-> "none", name |-> "", url |-> "", hit_list |-> {}, ret |-> Return(NoHtml)]

NoThreads == [th \in Threads |-> NoThread]

\* The module after import, before any call
Boot ==
    /\ \E e \in InitStores : cache = [k \in DOMAIN e |-> <<e[k], OldHtml(k)>>]
    /\ loaded = FALSE
    /\ opens = 0
    /\ closers = 0
    /\ disk = cache
    /\ threads = NoThreads
    /\ now = StartDay
    /\ pc = "idle"
    /\ op = NoOp
    /\ ret = Return(NoHtml)
    /\ urls = <<>>
    /\ use_cache = TRUE
    /\ n_workers = 1
    /\ work_queue = <<>>
    /\ futures = <<>>
    /\ idx = 1
    /\ turns = <<>>
    /\ gen = 1
    /\ out = <<>>
    /\ calls = NoCalls
    /\ cache0 = EmptyCache

Init ==
    /\ Boot
    /\ budget = 1
    /\ origin = [k \in Urls |-> NoResponse]

\* The locals of get_html_async and of its generator are gone
Forget ==
    /\ urls' = <<>>
    /\ use_cache' = TRUE
    /\ n_workers' = 1
    /\ work_queue' = <<>>
    /\ futures' = <<>>
    /\ idx' = 1
    /\ turns' = <<>>
    /\ gen' = 1
    /\ out' = <<>>

\* The origin's pages do not change during a behaviour: what it may answer
\* for url is any response until it has answered once, that answer afterwards
Answers(url) == IF origin[url] = NoResponse THEN Responses(url) ELSE {origin[url]}

\* time.time() reads t: the clock never runs backwards
Clock(t) ==
    /\ t \in now..Horizon
    /\ now' = t

\* load_cache without its atexit.register line
RegisteredNever(was_loaded, n) == n

\* _atexit.register(cache.close), reached only when load_cache opens the shelf
Registered(was_loaded, n) == IF was_loaded THEN n ELSE n + 1

\* load_cache without its `if cache != None: return`
EnsureLoadedAgain ==
    /\ loaded' = TRUE
    /\ opens' = opens + 1
    /\ closers' = closers + 1
    /\ disk' = disk
    /\ threads' = threads

\* `if cache == None: load_cache()` at the head of every function
EnsureLoaded ==
    /\ loaded' = TRUE
    /\ opens' = IF loaded THEN opens ELSE opens + 1
    /\ closers' = Registered(loaded, closers)
    /\ disk' = disk
    /\ threads' = threads

\* A top-level call begins; Init is the instant of the first one
Begin(name, url, us, uc, t) ==
    /\ pc = "idle"
    /\ budget > 0
    /\ op = NoOp => t = now
    /\ budget' = budget - 1
    /\ op' = [name |-> name, url |-> url, urls |-> us, use_cache |-> uc, t |-> t]
    /\ cache0' = cache
    /\ Clock(t)

\* load_cache(flag, path)
LoadCache ==
    /\ Begin("load_cache", "", <<>>, TRUE, now)
    /\ EnsureLoaded
    /\ ret' = Return(NoHtml)
    /\ calls' = NoCalls
    /\ UNCHANGED <<cache, pc, bulk, origin>>

\* get_html(url, use_cache = uc) at time t, the origin answering with request
GetHtml(url, uc, t, request, draw) ==
    /\ Begin("get_html", url, <<>>, uc, t)
    /\ EnsureLoaded
    /\ request \in Answers(url)
    /\ origin' = IF Hit(cache, url, uc, t) THEN origin ELSE [origin EXCEPT ![url] = request]
    /\ cache' = get_html_cache(cache, url, uc, t, request, draw)
    /\ ret' = get_html_result(cache, url, uc, t, request, draw)
    /\ calls' = [NoCalls EXCEPT ![url] = IF Hit(cache, url, uc, t) THEN 0 ELSE 1]
    /\ UNCHANGED <<pc, bulk>>

\* reset()
Reset ==
    /\ Begin("reset", "", <<>>, TRUE, now)
    /\ EnsureLoaded
    /\ cache' = EmptyCache
    /\ ret' = Return(NoHtml)
    /\ calls' = NoCalls
    /\ UNCHANGED <<pc, bulk, origin>>

\* A sweep that ignores its argument and drops every timed-out entry
remove_invalid_entries_unlisted(c, keys, t) ==
    [k \in {k \in DOMAIN c : cache_entry_is_valid(c, k, t)} |-> c[k]]

\* The shelf remove_invalid_entries(keys) leaves
remove_invalid_entries(c, keys, t) ==
    LET hit_list == {url \in keys : url \in DOMAIN c /\ ~cache_entry_is_valid(c, url, t)}
    IN [k \in DOMAIN c \ hit_list |-> c[k]]

\* remove_invalid_entries(keys) at time t, and remove_invalid_entries() when all
RemoveInvalidEntries(keys, all, t) ==
    /\ Begin("remove_invalid_entries", "", <<>>, TRUE, t)
    /\ EnsureLoaded
    /\ cache' = remove_invalid_entries(cache, IF all THEN DOMAIN cache ELSE keys, t)
    /\ ret' = Return(NoHtml)
    /\ calls' = NoCalls
    /\ UNCHANGED <<pc, bulk, origin>>

\* ----------------------------------------------------- get_html_async ----
Range(seq) == {seq[i] : i \in 1..Len(seq)}

\* The urls arguments of get_html_async
BulkUrls == {"uc", "pg", "mv"}

UrlLists == UNION {[1..n -> BulkUrls] : n \in 0..MaxLen}

Generator == [kind |-> "generator", html |-> NoHtml, exc |-> ""]

\* The work queue built without looking at use_cache
WorkQueueCachedOnly(us, c, uc) == SelectSeq(us, LAMBDA url : url \notin DOMAIN c)

\* line 292
WorkQueue(us, c, uc) == SelectSeq(us, LAMBDA url : url \notin DOMAIN c \/ ~uc)

\* FuturesSession() without max_workers: the library's default of 8 threads
PoolSizeDefault(n) == 8

\* FuturesSession(max_workers = n_workers): the threads of the pool
PoolSize(n) == n

\* The generator iterating over work_queue instead of urls
GeneratorUrlsWorkQueue(us, wq) == wq

\* lines 288 and 315: the urls the generator requests
GeneratorUrls(us, wq) == us

Running == {i \in DOMAIN futures : futures[i] = "running"}

AllDone == \A i \in DOMAIN futures : futures[i] = "done"

\* get_html_async(us, n_workers = n, use_cache = uc) at time t, up to line
\* 297: the sweep, the work queue and one submitted request per url of it
GetHtmlAsync(us, n, uc, t) ==
    /\ Begin("get_html_async", "", us, uc, t)
    /\ EnsureLoaded
    /\ LET swept == remove_invalid_entries(cache, Range(us), t)
           wq == WorkQueue(us, swept, uc)
       IN /\ cache' = swept
          /\ work_queue' = wq
          /\ futures' = [i \in 1..Len(wq) |-> "queued"]
          /\ pc' = IF Len(wq) > 0 THEN "populate" ELSE "generator"
          /\ urls' = GeneratorUrls(us, wq)
    /\ use_cache' = uc
    /\ n_workers' = n
    /\ idx' = 1
    /\ turns' = <<>>
    /\ gen' = 1
    /\ out' = <<>>
    /\ calls' = NoCalls
    /\ ret' = Generator
    /\ UNCHANGED origin

\* A thread of the pool takes the oldest queued request and sends it
WorkerStart(i) ==
    /\ pc \in {"populate", "unwind"}
    /\ futures[i] = "queued"
    /\ \A j \in 1..(i - 1) : futures[j] # "queued"
    /\ Cardinality(Running) < PoolSize(n_workers)
    /\ futures' = [futures EXCEPT ![i] = "running"]
    /\ calls' = [calls EXCEPT ![work_queue[i]] = @ + 1]
    /\ UNCHANGED <<cache, loaded, opens, closers, disk, threads, now, pc, budget, op, ret, urls, use_cache,
                   n_workers, work_queue, idx, turns, gen, out, cache0, origin>>

\* A session whose response hook stores a placeholder for the url from the
\* worker thread
worker_cache_hook(c, url) == Put(c, url, <<0, NoHtml>>)

\* What the thread that performed session.get(url) does to the shelf:
\* nothing, the session is given no hook and the thread only requests
worker_cache(c, url) == c

\* A request in flight completes (future.result() reads its outcome)
WorkerFinish(i) ==
    /\ pc \in {"populate", "unwind"}
    /\ futures[i] = "running"
    /\ futures' = [futures EXCEPT ![i] = "done"]
    /\ cache' = worker_cache(cache, work_queue[i])
    /\ UNCHANGED <<loaded, opens, closers, disk, threads, now, pc, budget, op, ret, urls, use_cache,
                   n_workers, work_queue, idx, turns, gen, out, calls, cache0, origin>>

\* The loop with request.raise_for_status() in place of `continue`
populate_exc_strict(request) ==
    IF request.err THEN "ConnectionError"
    ELSE IF request.status_code # 200 THEN "HTTPError"
    ELSE IF TreatmentRaises(request.url, request.text) THEN "AttributeError"
    ELSE ""

\* The exception one turn of the loop of lines 299-313 raises, "" if none
populate_exc(request) ==
    IF request.err THEN "ConnectionError"
    ELSE IF request.status_code # 200 THEN ""
    ELSE IF TreatmentRaises(request.url, request.text) THEN "AttributeError"
    ELSE ""

\* A turn of the loop that skips the status test of lines 302-303
populate_cache_any_status(c, request, t, draw) ==
    IF populate_exc(request) # "" \/ request.err
    THEN c
    ELSE Put(c, request.url, Treatment(request.url, request.text, t, draw))

\* The shelf one turn of the loop of lines 299-313 leaves
populate_cache(c, request, t, draw) ==
    IF populate_exc(request) # "" \/ request.status_code # 200
    THEN c
    ELSE Put(c, request.url, Treatment(request.url, request.text, t, draw))

\* How a turn went: the request raised, the status was not 200, the
\* treatment raised, or the entry was written
TurnKind(request) ==
    IF request.err THEN "transport"
    ELSE IF request.status_code # 200 THEN "status"
    ELSE IF populate_exc(request) # "" THEN "treatment"
    ELSE "ok"

\* One turn of the loop of lines 299-313 at time t, on the future it waited
\* for, whose outcome is request; after the last turn the session is closed
\* and the generator returned
ProcessFuture(request, t, draw) ==
    /\ pc = "populate"
    /\ futures[idx] = "done"
    /\ request \in Answers(work_queue[idx])
    /\ origin' = [origin EXCEPT ![work_queue[idx]] = request]
    /\ Clock(t)
    /\ LET exc == populate_exc(request)
       IN /\ cache' = populate_cache(cache, request, t, draw)
          /\ ret' = IF exc # "" THEN Raise(exc) ELSE ret
          /\ idx' = IF exc # "" THEN idx ELSE idx + 1
          /\ pc' = IF exc # "" THEN "unwind"
                   ELSE IF idx = Len(work_queue) THEN "generator" ELSE "populate"
    /\ turns' = Append(turns, TurnKind(request))
    /\ UNCHANGED <<loaded, opens, closers, disk, threads, budget, op, urls, use_cache, n_workers,
                   work_queue, futures, gen, out, calls, cache0>>

\* An exception leaves the with block: the session waits for its pool,
\* then the exception reaches the caller of get_html_async
SessionExit ==
    /\ pc = "unwind"
    /\ AllDone
    /\ pc' = "idle"
    /\ Forget
    /\ UNCHANGED <<cache, loaded, opens, closers, disk, threads, now, budget, op, ret, calls, cache0, origin>>

\* next() on the generator of line 315 at time t: get_html(urls[gen])
GeneratorNext(request, t, draw) ==
    /\ pc = "generator"
    /\ gen <= Len(urls)
    /\ request \in Answers(urls[gen])
    /\ origin' = IF Hit(cache, urls[gen], TRUE, t) THEN origin
                 ELSE [origin EXCEPT ![urls[gen]] = request]
    /\ Clock(t)
    /\ LET url == urls[gen]
           r == get_html_result(cache, url, TRUE, t, request, draw)
       IN /\ cache' = get_html_cache(cache, url, TRUE, t, request, draw)
          /\ out' = Append(out, r)
          /\ calls' = [calls EXCEPT ![url] = IF Hit(cache, url, TRUE, t) THEN @ ELSE @ + 1]
          /\ gen' = IF r.kind = "raise" THEN Len(urls) + 1 ELSE gen + 1
    /\ UNCHANGED <<loaded, opens, closers, disk, threads, pc, budget, op, ret, urls, use_cache, n_workers,
                   work_queue, futures, idx, turns, cache0>>

\* The generator has ended (exhausted, or it raised), or the caller drops it
GeneratorClose ==
    /\ pc = "generator"
    /\ pc' = "idle"
    /\ Forget
    /\ UNCHANGED <<cache, loaded, opens, closers, disk, threads, now, budget, op, ret, calls, cache0, origin>>

\* ------------------------------------------------------ specification ----
Times == StartDay..Horizon

\* The answers the turn of the for loop, and the generator, may now get
TurnAnswers == IF pc = "populate" THEN Answers(work_queue[idx]) ELSE {}

NextAnswers == IF pc = "generator" /\ gen <= Len(urls) THEN Answers(urls[gen]) ELSE {}

Idle == pc = "idle" /\ budget > 0

Next ==
    \/ LoadCache
    \/ Idle /\ \E url \in Urls, uc \in BOOLEAN, t \in Times, draw \in Draws :
                 \E request \in Answers(url) : GetHtml(url, uc, t, request, draw)
    \/ Reset
    \/ Idle /\ \E keys \in SUBSET Urls, all \in BOOLEAN, t \in Times :
                 RemoveInvalidEntries(keys, all, t)
    \/ Idle /\ \E us \in UrlLists, n \in 1..MaxWorkers, uc \in BOOLEAN, t \in Times :
                 GetHtmlAsync(us, n, uc, t)
    \/ \E i \in DOMAIN futures : WorkerStart(i)
    \/ \E i \in DOMAIN futures : WorkerFinish(i)
    \/ \E request \in TurnAnswers, t \in Times, draw \in Draws : ProcessFuture(request, t, draw)
    \/ SessionExit
    \/ \E request \in NextAnswers, t \in Times, draw \in Draws : GeneratorNext(request, t, draw)
    \/ GeneratorClose

Spec == Init /\ [][Next]_vars

\* ============================================================ claims ====
\* What the claims say of a response
StatusFailed(request) == ~request.err /\ request.status_code >= 400

FetchFailed(request) == request.err \/ StatusFailed(request)

\* The entry of key was in the shelf and valid when the call began
ValidAtCall(key) == key \in DOMAIN cache0 /\ cache0[key][1] > op.t

\* ---- C1 ----------------------------------------------------------------
\* C1: get_html(key, use_cache=True) with a non-expired entry for key in
\* the store returns that entry's payload, makes no origin request and
\* leaves the store unchanged.
C1_CacheHit ==
    (op.name = "get_html" /\ op.use_cache /\ ValidAtCall(op.url))
    => /\ ret = Return(cache0[op.url][2])
       /\ calls = NoCalls
       /\ cache = cache0

C1_Witness ==
    /\ op.name = "get_html" /\ op.use_cache /\ ValidAtCall(op.url)
    /\ ret.kind = "return"

\* ---- C2 ----------------------------------------------------------------
\* C2: when the origin answers get_html's request with a non-success
\* status, the call raises and the store is as it was before the call.
C2_OriginFailure ==
    (op.name = "get_html" /\ calls[op.url] = 1 /\ StatusFailed(origin[op.url]))
    => /\ ret = Raise("HTTPError")
       /\ cache = cache0

C2_Witness ==
    /\ op.name = "get_html" /\ calls[op.url] = 1 /\ StatusFailed(origin[op.url])
    /\ op.url \in DOMAIN cache0
    /\ ret.kind = "raise"

\* ---- C3 ----------------------------------------------------------------
\* The origin's answer for key, if it has given one, has status 200 and a
\* body the treatments accept
Succeeds(key) ==
    \/ origin[key] = NoResponse
    \/ /\ ~origin[key].err
       /\ origin[key].status_code = 200
       /\ ~TreatmentRaises(key, origin[key].text)
       /\ ~TreatmentRaises(origin[key].url, origin[key].text)

\* The payloads get_html(key) returns on its own: the entry that was
\* valid when the call began, or the origin's page of key under the
\* treatment of key
OwnPayloads(key) ==
    {cache0[k][2] : k \in {k \in {key} : ValidAtCall(k)}}
    \cup {Treatment(k, origin[k].text, op.t, 0)[2] : k \in {k \in {key} : origin[k] # NoResponse}}

BulkCall == op.name = "get_html_async" /\ pc # "idle"

Exhausted == pc = "generator" /\ gen > Len(urls)

\* C3: when all origin responses succeed, whatever the order in which the
\* concurrent fetches complete, get_html_async(keys) raises nothing, its
\* i-th result is a payload of keys[i] as get_html(keys[i]) returns it, and
\* once exhausted it has yielded exactly len(keys) payloads.
C3_OrderedComplete ==
    (BulkCall /\ \A k \in Range(op.urls) : Succeeds(k))
    => /\ pc # "unwind"
       /\ Len(out) <= Len(op.urls)
       /\ \A i \in DOMAIN out :
            out[i].kind = "return" /\ out[i].html \in OwnPayloads(op.urls[i])
       /\ Exhausted => Len(out) = Len(op.urls)

\* Two different keys, one served from the store and one fetched, the
\* fetched one first in keys, both delivered
C3_Witness ==
    /\ BulkCall /\ Exhausted
    /\ \A k \in Range(op.urls) : Succeeds(k)
    /\ Len(op.urls) = 2 /\ op.urls[1] # op.urls[2]
    /\ Len(work_queue) = 1 /\ work_queue[1] = op.urls[1]
    /\ Len(out) = 2

\* Both keys fetched, the second fetch completing before the first
C3_WitnessOrder ==
    /\ BulkCall /\ pc = "populate"
    /\ Len(work_queue) = 2
    /\ futures = <<"running", "done">>

\* ---- C10 ---------------------------------------------------------------
\* C10: in every state of a get_html_async(keys, n_workers=N) call, at most
\* N origin requests are in flight.
C10_BoundedConcurrency == Cardinality(Running) <= n_workers

\* The pool is full and a request waits for a free thread
C10_Witness ==
    /\ BulkCall
    /\ Cardinality(Running) = n_workers
    /\ \E i \in DOMAIN futures : futures[i] = "queued"

\* ---- C4 ----------------------------------------------------------------
\* The shelf after the sweep that opens get_html_async
Swept == remove_invalid_entries(cache0, Range(op.urls), op.t)

\* The population phase: from the call to the first next() on the generator
Populating == BulkCall /\ out = <<>>

PopulationOver == Populating /\ pc = "generator"

\* The url under which turn i of the loop stores its entry
TurnUrl(i) == origin[work_queue[i]].url

\* C4: a non-success status for one key of the work set raises no error in
\* the population phase and writes nothing for that key, and every key of
\* the work set whose turn succeeded is still written to the store.
C4_StatusTolerated ==
    Populating
    => /\ pc = "unwind" => turns[Len(turns)] # "status"
       /\ \A u \in Urls :
            (\A i \in DOMAIN turns : turns[i] = "ok" => TurnUrl(i) # u)
            => /\ u \in DOMAIN cache <=> u \in DOMAIN Swept
               /\ u \in DOMAIN cache => cache[u] = Swept[u]
       /\ pc = "generator"
          => /\ Len(turns) = Len(work_queue)
             /\ \A i \in DOMAIN turns :
                  turns[i] = "ok"
                  => /\ TurnUrl(i) \in DOMAIN cache
                     /\ cache[TurnUrl(i)][2] =
                          Treatment(TurnUrl(i), origin[work_queue[i]].text, op.t, 0)[2]

\* The population phase is over, one key was answered with a non-success
\* status and another was written
C4_Witness ==
    /\ PopulationOver
    /\ \E i, j \in DOMAIN turns :
          /\ turns[i] = "status" /\ turns[j] = "ok"
          /\ work_queue[i] \notin DOMAIN cache
          /\ TurnUrl(j) \in DOMAIN cache

\* ---- C5 ----------------------------------------------------------------
\* C5: a treatment that fails on one key's body does not abort the
\* population phase: the key is dropped and the remaining keys of the work
\* set are still processed.
C5_TreatmentTolerated ==
    Populating
    => /\ pc = "unwind" => turns[Len(turns)] # "treatment"
       /\ pc = "generator" => Len(turns) = Len(work_queue)

\* ---- C6 ----------------------------------------------------------------
\* C6: a fetch that fails at transport level for one key does not make the
\* population phase raise: the key is dropped and the remaining keys of the
\* work set are still processed.
C6_TransportTolerated ==
    Populating
    => /\ pc = "unwind" => turns[Len(turns)] # "transport"
       /\ pc = "generator" => Len(turns) = Len(work_queue)

\* ---- C7 ----------------------------------------------------------------
\* The answers of the origin that fail, and those that get_html_async and
\* get_html both accept
BadResponses(url) == {request \in Responses(url) : FetchFailed(request)}

GoodResponses(url) ==
    {request \in Responses(url) :
        /\ ~FetchFailed(request)
        /\ ~TreatmentRaises(url, request.text)
        /\ ~TreatmentRaises(request.url, request.text)}

\* get_html_async on three distinct keys
Triples == {us \in [1..3 -> BulkUrls] : \A i, j \in 1..3 : us[i] = us[j] => i = j}

\* An origin that fails for exactly one of the three keys, every time
InitTriple ==
    /\ Boot
    /\ budget = 1
    /\ \E failing \in BulkUrls :
         \E o \in [BulkUrls -> UNION {Responses(u) : u \in BulkUrls}] :
            /\ \A u \in BulkUrls :
                 o[u] \in IF u = failing THEN BadResponses(u) ELSE GoodResponses(u)
            /\ origin = [u \in Urls |-> IF u \in BulkUrls THEN o[u] ELSE NoResponse]

NextTriple ==
    \/ Idle /\ \E us \in Triples, n \in 1..MaxWorkers, uc \in BOOLEAN, t \in Times :
                 GetHtmlAsync(us, n, uc, t)
    \/ \E i \in DOMAIN futures : WorkerStart(i)
    \/ \E i \in DOMAIN futures : WorkerFinish(i)
    \/ \E request \in TurnAnswers, t \in Times, draw \in Draws : ProcessFuture(request, t, draw)
    \/ SessionExit
    \/ \E request \in NextAnswers, t \in Times, draw \in Draws : GeneratorNext(request, t, draw)
    \/ GeneratorClose

SpecTriple == InitTriple /\ [][NextTriple]_vars

\* Of the keys [k1, k2, k3] only k2's origin fetch fails, and k2 has no
\* valid entry that would answer for it
OnlySecondFails ==
    /\ BulkCall
    /\ Len(op.urls) = 3
    /\ FetchFailed(origin[op.urls[2]])
    /\ ~ValidAtCall(op.urls[2])
    /\ Succeeds(op.urls[1])
    /\ Succeeds(op.urls[3])

\* C7: for keys [k1, k2, k3] where only k2's origin fetch fails, the call
\* delivers the correct payload of k1 and raises an error when k2's result
\* is requested, and never delivers a payload in k2's position.
C7_FailureIsolated ==
    OnlySecondFails
    => /\ pc # "unwind"
       /\ Len(out) >= 1
          => out[1].kind = "return" /\ out[1].html \in OwnPayloads(op.urls[1])
       /\ Len(out) >= 2 => out[2].kind = "raise"
       /\ Exhausted => Len(out) = 2

\* The same statement for a failure by status only
C7_StatusIsolated ==
    (OnlySecondFails /\ StatusFailed(origin[op.urls[2]])) => C7_FailureIsolated

\* ---- C8 ----------------------------------------------------------------
\* C8: in get_html_async(keys, use_cache=False), a key that had a valid
\* entry before the call and whose origin fetch fails during the call gets
\* an error as its result, never the payload cached before the call.
C8_NoStaleMask ==
    (BulkCall /\ ~op.use_cache)
    => \A i \in DOMAIN out :
         (ValidAtCall(op.urls[i]) /\ FetchFailed(origin[op.urls[i]]))
         => out[i].kind = "raise"

\* ---- C9 ----------------------------------------------------------------
\* C9: get_html_async(keys, use_cache=True) with every origin response
\* successful makes no origin call for a key that had a valid entry at call
\* time and exactly one for each key that had not. The counter of a key
\* only grows, so the count that holds once every result is consumed bounds
\* it in every state of the call; stated while the clock stands still, so
\* that no entry expires during the call.
C9_OriginCalls ==
    (BulkCall /\ op.use_cache /\ now = op.t
       /\ \A k \in Range(op.urls) : Succeeds(k))
    => \A k \in Range(op.urls) : calls[k] <= IF ValidAtCall(k) THEN 0 ELSE 1

\* ------------------------------------------------- sequences of calls ----
\* A caller that makes MaxCalls top-level calls one after the other; the
\* bulk fetch takes at most one url and one worker
SeqUrls == {"uc", "pg"}

SeqLists == UNION {[1..n -> SeqUrls] : n \in 0..1}

InitSeq ==
    /\ Boot
    /\ budget = MaxCalls
    /\ origin = [k \in Urls |-> NoResponse]

NextSeq ==
    \/ LoadCache
    \/ Idle /\ \E url \in SeqUrls, uc \in BOOLEAN, t \in Times, draw \in Draws :
                 \E request \in Answers(url) : GetHtml(url, uc, t, request, draw)
    \/ Reset
    \/ Idle /\ \E keys \in SUBSET SeqUrls, all \in BOOLEAN, t \in Times :
                 RemoveInvalidEntries(keys, all, t)
    \/ Idle /\ \E us \in SeqLists, uc \in BOOLEAN, t \in Times : GetHtmlAsync(us, 1, uc, t)
    \/ \E i \in DOMAIN futures : WorkerStart(i)
    \/ \E i \in DOMAIN futures : WorkerFinish(i)
    \/ \E request \in TurnAnswers, t \in Times, draw \in Draws : ProcessFuture(request, t, draw)
    \/ SessionExit
    \/ \E request \in NextAnswers, t \in Times, draw \in Draws : GeneratorNext(request, t, draw)
    \/ GeneratorClose

SpecSeq == InitSeq /\ [][NextSeq]_vars

\* ------------------------------------------------ process termination ----
\* The shelf file once the interpreter has run its atexit callbacks: each
\* registered cache.close syncs the shelf to its file and closes it
AtExit(c, d, n) == IF n > 0 THEN c ELSE d

\* The interpreter terminates in a controlled way (end of the script,
\* sys.exit, an uncaught exception) while the caller is at top level, with
\* or without a generator it has not exhausted
Exit ==
    /\ pc \in {"idle", "generator"}
    /\ pc' = "exited"
    /\ disk' = AtExit(cache, disk, closers)
    /\ UNCHANGED <<cache, loaded, opens, closers, threads, now, budget, op, ret, bulk, calls,
                   cache0, origin>>

NextExit ==
    \/ NextSeq
    \/ Exit

SpecExit == InitSeq /\ [][NextExit]_vars

\* ------------------------------------------------- concurrent callers ----
\* Two threads of one process each make one call of the module, their
\* steps interleaved at the places where the interpreter may switch
\* thread: between the `cache == None` test and shelve.open, between the
\* test of line 219 and the read of line 233, around the request, and
\* between the two loops of remove_invalid_entries.  The module takes no
\* lock anywhere.
ThreadOps ==
    {[name |-> "load_cache", url |-> ""], [name |-> "reset", url |-> ""],
     [name |-> "remove_invalid_entries", url |-> ""]}
    \cup {[name |-> "get_html", url |-> u] : u \in SeqUrls}

\* The rest of the module state, which a step of a thread leaves alone
caller == <<pc, budget, op, ret, bulk, calls, cache0, now, disk>>

Goto(th, where) == threads' = [threads EXCEPT ![th].pc = where]

Finish(th, result) ==
    threads' = [threads EXCEPT ![th].pc = IF result.kind = "raise" THEN "failed" ELSE "done",
                               ![th].ret = result]

\* Thread th calls o
TStart(th, o) ==
    /\ threads[th].pc = "none"
    /\ threads' = [threads EXCEPT ![th].pc = "head", ![th].name = o.name, ![th].url = o.url]
    /\ UNCHANGED <<cache, loaded, opens, closers, origin, caller>>

\* `if cache == None` (in load_cache: `if cache != None: return`)
THead(th) ==
    /\ threads[th].pc = "head"
    /\ IF ~loaded THEN Goto(th, "open")
       ELSE IF threads[th].name = "load_cache" THEN Finish(th, Return(NoHtml))
       ELSE Goto(th, "body")
    /\ UNCHANGED <<cache, loaded, opens, closers, origin, caller>>

\* What a shelf opened on the file shows while another shelf is open on
\* it: the dbm back ends differ, it may show the other shelf's writes or
\* only what the file held
Reopened(c, d) == {c, d}

\* cache = shelve.open(...); atexit.register(cache.close).  When another
\* thread has opened the shelf since the test, the dbm back end either
\* refuses the second open or hands out a second shelf on the same file.
TOpen(th) ==
    /\ threads[th].pc = "open"
    /\ \/ /\ loaded
          /\ Finish(th, Raise("dbm.error"))
          /\ UNCHANGED <<cache, loaded, opens, closers>>
       \/ /\ loaded' = TRUE
          /\ opens' = opens + 1
          /\ closers' = closers + 1
          /\ cache' \in IF loaded THEN Reopened(cache, disk) ELSE {cache}
          /\ IF threads[th].name = "load_cache" THEN Finish(th, Return(NoHtml))
             ELSE Goto(th, "body")
    /\ UNCHANGED <<origin, caller>>

\* The first statement of the body after the store is loaded: reset
\* clears, remove_invalid_entries collects its hit_list over cache.keys(),
\* get_html tests line 219
TBody(th) ==
    /\ threads[th].pc = "body"
    /\ CASE threads[th].name = "reset" ->
              /\ cache' = EmptyCache
              /\ Finish(th, Return(NoHtml))
         [] threads[th].name = "remove_invalid_entries" ->
              /\ threads' = [threads EXCEPT
                    ![th].pc = "pop",
                    ![th].hit_list = {k \in DOMAIN cache : ~cache_entry_is_valid(cache, k, now)}]
              /\ cache' = cache
         [] OTHER ->
              /\ Goto(th, IF Hit(cache, threads[th].url, TRUE, now) THEN "read" ELSE "fetch")
              /\ cache' = cache
    /\ UNCHANGED <<loaded, opens, closers, origin, caller>>

\* The exception lines 222-231 raise for this answer, "" when none
fetch_exc(url, request) ==
    IF request.err THEN "ConnectionError"
    ELSE IF raise_for_status(request) THEN "HTTPError"
    ELSE IF TreatmentRaises(url, request.text) THEN "AttributeError"
    ELSE ""

\* get_html, lines 222-231: the request, the treatment and the write
TFetch(th, request, draw) ==
    /\ threads[th].pc = "fetch"
    /\ request \in Answers(threads[th].url)
    /\ origin' = [origin EXCEPT ![threads[th].url] = request]
    /\ IF fetch_exc(threads[th].url, request) # ""
       THEN /\ Finish(th, Raise(fetch_exc(threads[th].url, request)))
            /\ cache' = cache
       ELSE /\ Goto(th, "read")
            /\ cache' = Put(cache, threads[th].url,
                            Treatment(threads[th].url, request.text, now, draw))
    /\ UNCHANGED <<loaded, opens, closers, caller>>

\* get_html, line 233: return cache[url][1]
TRead(th) ==
    /\ threads[th].pc = "read"
    /\ IF threads[th].url \in DOMAIN cache
       THEN Finish(th, Return(cache[threads[th].url][2]))
       ELSE Finish(th, Raise("KeyError"))
    /\ UNCHANGED <<cache, loaded, opens, closers, origin, caller>>

\* remove_invalid_entries, the second loop: cache.pop(url) for each url of
\* hit_list, which raises KeyError at the first url that is gone, after
\* having popped any of the others
TPop(th) ==
    /\ threads[th].pc = "pop"
    /\ IF threads[th].hit_list \subseteq DOMAIN cache
       THEN /\ cache' = [k \in DOMAIN cache \ threads[th].hit_list |-> cache[k]]
            /\ Finish(th, Return(NoHtml))
       ELSE /\ \E popped \in SUBSET (threads[th].hit_list \cap DOMAIN cache) :
                 cache' = [k \in DOMAIN cache \ popped |-> cache[k]]
            /\ Finish(th, Raise("KeyError"))
    /\ UNCHANGED <<loaded, opens, closers, origin, caller>>

InitPair ==
    /\ Boot
    /\ budget = 0
    /\ origin = [k \in Urls |-> NoResponse]

NextPair ==
    \/ \E th \in Threads, o \in ThreadOps : TStart(th, o)
    \/ \E th \in Threads : THead(th)
    \/ \E th \in Threads : TOpen(th)
    \/ \E th \in Threads : TBody(th)
    \/ \E th \in Threads, draw \in Draws :
          \E request \in Responses(threads[th].url) : TFetch(th, request, draw)
    \/ \E th \in Threads : TRead(th)
    \/ \E th \in Threads : TPop(th)

SpecPair == InitPair /\ [][NextPair]_vars

\* ------------------------------------------------------ wider draws ----
\* One get_html call with lifetimes drawn on both sides of the cutoff of
\* each half-life
WideDraws == {0, 1, 7, 8, 9, 239, 240, 241, 719, 720, 721}

InitJitter ==
    /\ Boot
    /\ budget = 1
    /\ origin = [k \in Urls |-> NoResponse]

NextJitter ==
    Idle /\ \E url \in Urls, uc \in BOOLEAN, t \in Times, draw \in WideDraws :
               \E request \in Answers(url) : GetHtml(url, uc, t, request, draw)

SpecJitter == InitJitter /\ [][NextJitter]_vars

\* ---- C11 ---------------------------------------------------------------
\* The keys a sweep covers: its argument, or every key of the store
Covered(keys, all) == IF all THEN DOMAIN cache ELSE keys

\* C11: remove_invalid_entries(keys) returns without error and leaves the
\* store it found minus exactly the keys that are in keys, present and
\* expired: an expired key of keys is gone, a valid key of keys and every
\* key not in keys (expired or not) keeps its expiry and payload, nothing is
\* added; with keys omitted every key of the store is covered.
C11_SweepCorrect ==
    [][\A keys \in SUBSET Urls, all \in BOOLEAN, t \in Times :
         RemoveInvalidEntries(keys, all, t)
         => /\ ret' = Return(NoHtml)
            /\ DOMAIN cache' \subseteq DOMAIN cache
            /\ \A k \in DOMAIN cache :
                 IF k \in Covered(keys, all) /\ cache[k][1] <= t
                 THEN k \notin DOMAIN cache'
                 ELSE k \in DOMAIN cache' /\ cache'[k] = cache[k]]_vars

\* A sweep has removed an expired key and left another expired key, which
\* was not listed, in the store
C11_Witness ==
    /\ op.name = "remove_invalid_entries"
    /\ \E k \in DOMAIN cache0 : k \notin DOMAIN cache /\ cache0[k][1] <= op.t
    /\ \E k \in DOMAIN cache : cache[k][1] <= op.t

\* ---- C12 ---------------------------------------------------------------
\* get_html(url) has returned and the caller calls get_html(url) again at
\* once, which returns too
SecondCall(url, t, request, draw) ==
    /\ op.name = "get_html" /\ op.url = url /\ op.use_cache
    /\ ret.kind = "return"
    /\ t = op.t
    /\ GetHtml(url, TRUE, t, request, draw)
    /\ ret'.kind = "return"

\* C12: two consecutive get_html(k) calls return identical payloads; for a
\* key with a valid entry they make no origin call, for a key without an
\* entry at most one origin call in total.
C12_Idempotent ==
    [][\A url \in Urls, t \in Times, draw \in Draws :
         \A request \in Responses(url) :
            SecondCall(url, t, request, draw)
            => /\ ret'.html = ret.html
               /\ ValidAtCall(url) => calls[url] + calls'[url] = 0
               /\ url \notin DOMAIN cache0 => calls[url] + calls'[url] <= 1]_vars

\* The part of C12 about a key with a valid entry
C12_ValidEntry ==
    [][\A url \in Urls, t \in Times, draw \in Draws :
         \A request \in Responses(url) :
            (SecondCall(url, t, request, draw) /\ ValidAtCall(url))
            => ret'.html = ret.html /\ calls[url] + calls'[url] = 0]_vars

\* ---- C13 ---------------------------------------------------------------
\* get_html got a success status from the origin and the treatment of its
\* url fails on the body
TreatmentFailed ==
    /\ op.name = "get_html"
    /\ calls[op.url] = 1
    /\ ~FetchFailed(origin[op.url])
    /\ TreatmentRaises(op.url, origin[op.url].text)

\* C13: when the origin fetch succeeds but the treatment selected for the
\* key fails, get_html raises the treatment's error to its caller and the
\* store is exactly as it was before the call.
C13_TreatmentFailure ==
    TreatmentFailed => ret = Raise("AttributeError") /\ cache = cache0

\* The treatment failed on a key that had an entry, which is still there
C13_Witness ==
    /\ TreatmentFailed
    /\ op.url \in DOMAIN cache0
    /\ ret.kind = "raise"

\* ---- C14 ---------------------------------------------------------------
\* C14: a class-specific treatment fails when the body lacks the
\* substructure it extracts, so the store never holds an entry whose
\* payload stands for a missing substructure (the text "None").
C14_NoEmptyEntry ==
    \A k \in DOMAIN cache : cache[k][2].form # "None"

\* ---- C15 ---------------------------------------------------------------
\* The class the registration order gives a url: curricular unit before
\* teacher before student, default when none of the fragments is in it
FirstMatch(url) ==
    IF "ucurr_geral.ficha_uc_view" \in Fragments(url) THEN "curricular_unit"
    ELSE IF "func_geral.formview" \in Fragments(url) THEN "teacher"
    ELSE IF "fest_geral.cursos_list" \in Fragments(url) THEN "student"
    ELSE "default"

\* The forms of payload each class's treatment produces
ClassForms(class) ==
    CASE class = "curricular_unit" -> {"uc", "raw"}
      [] class = "teacher" -> {"teacher", "None"}
      [] class = "student" -> {"student", "None"}
      [] OTHER -> {"clean"}

\* The timeouts each class's expiry policy gives an entry written at time t
ClassTimeouts(class, t) ==
    CASE class = "curricular_unit" -> {t + Min(d, 4 * 6 * 30) : d \in Draws}
      [] class = "teacher" -> {t + Min(d, 4 * 2 * 30) : d \in Draws}
      [] class = "student" ->
           {(get_current_academic_year(t) + 1) * DaysPerYear + SeptemberTwentieth}
      [] OTHER -> {t + Min(d, 4 * 2) : d \in Draws}

\* The entries the current call has written
Written ==
    IF op = NoOp THEN {}
    ELSE {k \in DOMAIN cache : k \notin DOMAIN cache0 \/ cache[k] # cache0[k]}

\* C15: the treatment applied to a key is that of the first rule, in the
\* order curricular unit, teacher, student, that matches it, and the default
\* treatment when none matches: classification is defined for every key,
\* every entry's payload has a form of its key's class, and every entry a
\* call writes carries a timeout of that class's expiry policy.
C15_FirstMatchWins ==
    /\ \A url \in Urls : Classify(url) = FirstMatch(url)
    /\ \A k \in DOMAIN cache : cache[k][2].form \in ClassForms(FirstMatch(k))
    /\ \A k \in Written :
         \E t \in op.t..now : cache[k][1] \in ClassTimeouts(FirstMatch(k), t)

\* get_html has written an entry for a url that matches two rules, with the
\* timeout only the earlier rule's policy gives
C15_Witness ==
    /\ op.name = "get_html"
    /\ op.url = "ut"
    /\ "ut" \in Written
    /\ cache["ut"][2].form = "uc"
    /\ cache["ut"][1] = op.t + 4 * 6 * 30

\* ---- C16 ---------------------------------------------------------------
\* C16: over any sequence of calls to load_cache, get_html, reset,
\* remove_invalid_entries and get_html_async the store is opened exactly
\* once, by the first call; every later call finds it open, and load_cache
\* called while it is open returns leaving the store as it was.
C16_OpenedOnce ==
    /\ opens = IF loaded THEN 1 ELSE 0
    /\ op # NoOp => loaded
    /\ (op.name = "load_cache" /\ budget < MaxCalls - 1)
       => cache = cache0 /\ ret = Return(NoHtml)

\* load_cache was called after two other calls and the store has been
\* opened once
C16_Witness ==
    /\ op.name = "load_cache"
    /\ budget = MaxCalls - 3
    /\ opens = 1

\* ---- C17 ---------------------------------------------------------------
\* C17: whenever the store has been opened cache.close is registered
\* exactly once, and once the process has terminated in a controlled way
\* the shelf file holds every entry of the store, with the key, expiry and
\* payload that get_html or get_html_async wrote.
C17_FlushOnExit ==
    /\ closers = IF loaded THEN 1 ELSE 0
    /\ pc = "exited" => disk = cache

\* The process has terminated after a call wrote an entry that the file did
\* not hold before, and the file holds it
C17_Witness ==
    /\ pc = "exited"
    /\ \E k \in Written : k \in DOMAIN disk /\ disk[k] = cache[k] /\ cache[k][2].rev = OriginRev

\* ---- C18 ---------------------------------------------------------------
\* The keys whose entry a step adds, replaces or removes
Touched ==
    {k \in DOMAIN cache \cup DOMAIN cache' :
        \/ k \notin DOMAIN cache
        \/ k \notin DOMAIN cache'
        \/ cache[k] # cache'[k]}

\* C18: in get_html_async the worker threads only perform origin requests:
\* a step that changes the state of a future leaves the store alone, and
\* every step of the population phase that changes the store is a turn of
\* the caller's loop that has just stored one page, one entry at a time.
C18_SingleWriter ==
    [][(pc = "populate")
       => /\ futures' # futures => cache' = cache
          /\ cache' # cache
             => /\ Len(turns') = Len(turns) + 1
                /\ turns'[Len(turns')] = "ok"
                /\ idx' = idx + 1
                /\ Cardinality(Touched) = 1]_vars

\* The caller has stored one page while a worker is still requesting another
C18_Witness ==
    /\ pc = "populate"
    /\ Written # {}
    /\ \E i \in DOMAIN futures : futures[i] = "running"

\* ---- C19 ---------------------------------------------------------------
\* C19: when two threads call the module concurrently their accesses to
\* the store and to its handle are mutually exclusive: no interleaving
\* opens the store twice (or has the second open refused), and no caller
\* acts on a membership or validity check that another caller has
\* invalidated, which shows as a KeyError at the read or the pop that
\* follows the check.
C19_Serialised ==
    /\ opens <= 1
    /\ \A th \in Threads : threads[th].ret.exc \notin {"dbm.error", "KeyError"}

\* ---- C20 ---------------------------------------------------------------
\* The half-lives, in days, of the default, teacher and curricular unit
\* treatments
HalfLife(class) ==
    CASE class = "curricular_unit" -> 6 * 30
      [] class = "teacher" -> 2 * 30
      [] OTHER -> 2

HalfLives == {1, 2, 2 * 30, 6 * 30}

\* C20: for every half-life H and every draw the lifetime with cutoff is in
\* [0, 4H], so the expiry that the default, teacher and curricular unit
\* treatments write is between the time of the write and 4H later, for
\* their half-lives of 2, 60 and 180 days.
C20_TTLBound ==
    /\ \A H \in HalfLives, d \in WideDraws :
         /\ 0 <= random_radioactive_lifetime(H, TRUE, d)
         /\ random_radioactive_lifetime(H, TRUE, d) <= 4 * H
    /\ \A k \in Written :
         FirstMatch(k) # "student"
         => /\ op.t <= cache[k][1]
            /\ cache[k][1] <= op.t + 4 * HalfLife(FirstMatch(k))

\* get_html has written a teacher entry whose drawn lifetime was cut off at
\* four half-lives
C20_Witness ==
    /\ op.name = "get_html"
    /\ op.url = "te"
    /\ "te" \in Written
    /\ cache["te"][1] = op.t + 4 * 2 * 30

\* ---- C21 ---------------------------------------------------------------
\* get_html_async has just returned from line 297: nothing processed yet
Dispatched == BulkCall /\ turns = <<>> /\ out = <<>>

\* C21: get_html_async first sweeps the expired entries among keys, then
\* builds the work set: with use_cache=True the keys, in their order, that
\* have no valid entry (none with a valid entry, every one with an expired
\* or absent entry), with use_cache=False every key of keys.
C21_Partition ==
    BulkCall
    => /\ op.use_cache
          => work_queue = SelectSeq(op.urls, LAMBDA k : ~ValidAtCall(k))
       /\ ~op.use_cache => work_queue = op.urls
       /\ Len(futures) = Len(work_queue)
       /\ Dispatched
          => /\ DOMAIN cache =
                  {k \in DOMAIN cache0 : k \in Range(op.urls) => cache0[k][1] > op.t}
             /\ \A k \in DOMAIN cache : cache[k] = cache0[k]

\* A call with use_cache=True whose keys hold one with a valid entry, which
\* is skipped, and one with an expired entry, which is swept and dispatched
C21_Witness ==
    /\ Dispatched
    /\ op.use_cache
    /\ \E k \in Range(op.urls) : ValidAtCall(k) /\ k \notin Range(work_queue)
    /\ \E k \in Range(op.urls) :
         /\ k \in DOMAIN cache0 /\ ~ValidAtCall(k)
         /\ k \notin DOMAIN cache
         /\ k \in Range(work_queue)

\* ---- C22 ---------------------------------------------------------------
\* The re-requests of a bulk call start only when every future of the work
\* queue has completed and has had its turn of the for loop
C22_FetchesBeforeReads ==
    (BulkCall /\ out # <<>>)
    => /\ AllDone
       /\ Len(turns) = Len(work_queue)
       /\ \A i \in DOMAIN turns : turns[i] \in {"ok", "status"}

\* C22: every get_html_async call re-requests every original key, in the
\* original order, through get_html (the call never ends before the
\* re-requests, and the re-requests end only after the last key), and the
\* first re-request comes only after every dispatched fetch has completed
\* and its result has been written or dropped.
C22_PhaseOrdering ==
    BulkCall
    => /\ pc # "unwind"
       /\ Exhausted => Len(out) = Len(op.urls)
       /\ out # <<>> => AllDone /\ Len(turns) = Len(work_queue)

\* ---- C23 ---------------------------------------------------------------
\* get_html(key, use_cache=True) found an entry for key in the store
CheckedEntry == op.name = "get_html" /\ op.use_cache /\ op.url \in DOMAIN cache0

\* What the code does: the entry is valid strictly before its expiry
C23_StrictBoundary ==
    CheckedEntry => (calls[op.url] = 0 <=> op.t < cache0[op.url][1])

\* C23: the validity check reports an entry valid at every time t <= expiry
\* and stale at every time t > expiry, and mutates nothing: get_html with
\* use_cache=True serves the stored entry without an origin request and
\* without a change to the store at every t <= expiry, and goes to the
\* origin at every t > expiry.
C23_StalenessBoundary ==
    CheckedEntry
    => /\ op.t <= cache0[op.url][1]
          => calls[op.url] = 0 /\ cache = cache0 /\ ret = Return(cache0[op.url][2])
       /\ op.t > cache0[op.url][1] => calls[op.url] = 1

\* ---- C24 ---------------------------------------------------------------
\* The entries a step creates or changes
StepWrites == {k \in DOMAIN cache' : k \notin DOMAIN cache \/ cache'[k] # cache[k]}

\* The requests whose answer, as the step leaves it, is a body with a
\* success status that the treatment of key accepts, asked for key or
\* answered from key
Sources(key) ==
    {q \in Urls : /\ origin'[q] # NoResponse
                  /\ ~origin'[q].err
                  /\ origin'[q].status_code = 200
                  /\ q = key \/ origin'[q].url = key
                  /\ ~TreatmentRaises(key, origin'[q].text)}

\* C24: each entry is written by applying a treatment to the body of an
\* origin response with a success status, never from a failed fetch or a
\* failed treatment; a write touches one key, whose entry it creates or
\* replaces, and leaves one entry per key and every other entry in place.
C24_Provenance ==
    [][StepWrites # {}
       => /\ Cardinality(StepWrites) = 1
          /\ DOMAIN cache' = DOMAIN cache \cup StepWrites
          /\ \A k \in StepWrites :
               \E q \in Sources(k), t \in Times, d \in Draws :
                   cache'[k] = Treatment(k, origin'[q].text, t, d)]_vars

\* A turn of the population loop has replaced the entry of a key that was
\* in the store with the treated body of a 200 response
C24_Witness ==
    /\ BulkCall
    /\ \E i \in DOMAIN turns :
         /\ turns[i] = "ok"
         /\ work_queue[i] \in DOMAIN cache0
         /\ work_queue[i] \in DOMAIN cache
         /\ cache[work_queue[i]] # cache0[work_queue[i]]
         /\ origin[work_queue[i]].status_code = 200

\* ---- C25 ---------------------------------------------------------------
\* get_html(key, use_cache=False) has been called
Bypass == op.name = "get_html" /\ ~op.use_cache

\* C25: get_html(key, use_cache=False) always calls the origin, also when
\* the store holds a valid entry for key; on success it replaces the entry
\* with the new payload and a new expiry and returns the new payload; on
\* failure the previous entry, and the rest of the store, is unchanged.
C25_Bypass ==
    Bypass
    => /\ calls[op.url] = 1
       /\ origin[op.url] # NoResponse
       /\ IF Succeeds(op.url)
          THEN /\ \E d \in Draws :
                    cache[op.url] = Treatment(op.url, origin[op.url].text, op.t, d)
               /\ ret = Return(cache[op.url][2])
               /\ DOMAIN cache = DOMAIN cache0 \cup {op.url}
               /\ \A k \in DOMAIN cache0 \ {op.url} : cache[k] = cache0[k]
          ELSE /\ ret.kind = "raise"
               /\ cache = cache0

\* A valid entry was in the store, the origin was called all the same and
\* its page has replaced the entry
C25_Witness ==
    /\ Bypass
    /\ ValidAtCall(op.url)
    /\ calls[op.url] = 1
    /\ ret.kind = "return"
    /\ cache[op.url][2] # cache0[op.url][2]
    /\ ret.html = cache[op.url][2]

\* A valid entry was in the store, the origin was called and failed, and the
\* entry is still there
C25_WitnessFailure ==
    /\ Bypass
    /\ ValidAtCall(op.url)
    /\ calls[op.url] = 1
    /\ ret.kind = "raise"
    /\ cache = cache0

\* ---- C26 ---------------------------------------------------------------
\* The pool's threads and the main thread are scheduled, and every request
\* sent to the origin completes
Fairness ==
    /\ WF_vars(\E i \in DOMAIN futures : WorkerStart(i))
    /\ WF_vars(\E i \in DOMAIN futures : WorkerFinish(i))
    /\ WF_vars(\E request \in TurnAnswers, t \in Times, draw \in Draws :
                   ProcessFuture(request, t, draw))
    /\ WF_vars(SessionExit)

SpecLive == Spec /\ Fairness

\* Every population phase comes to an end: the loop is left, and when an
\* exception left it the session is closed and the exception is raised
C26_PopulationEnds ==
    /\ (pc = "populate") ~> (pc \in {"generator", "unwind"})
    /\ (pc = "unwind") ~> (pc = "idle" /\ ret.kind = "raise")

\* C26: every get_html call ends in Return or Fail, and every
\* get_html_async call finishes its population phase having processed every
\* key of the work set: when the for loop over the futures has been left,
\* every future has completed and has had its turn.
C26_Termination ==
    /\ (op.name = "get_html" /\ pc = "idle") => ret.kind \in {"return", "raise"}
    /\ (BulkCall /\ pc # "populate")
       => Len(turns) = Len(work_queue)

\* ---- C27 ---------------------------------------------------------------
\* Thread th runs the delete pass of remove_invalid_entries in this step,
\* the other thread being in a fetch or a sweep, if in anything
Pops(th) ==
    /\ threads[th].pc = "pop" /\ threads'[th].pc # "pop"
    /\ \A other \in Threads \ {th} :
         threads[other].name \in {"", "get_html", "remove_invalid_entries"}

\* C27: a sweep interleaved with a fetch or with another sweep never
\* deletes an entry that is valid at the moment of deletion, and never
\* fails because a collected key has already been removed.
C27_SweepInterleaved ==
    [][\A th \in Threads :
         Pops(th)
         => /\ threads'[th].ret.kind = "return"
            /\ \A k \in DOMAIN cache \ DOMAIN cache' :
                 ~cache_entry_is_valid(cache, k, now)]_vars

\* The two failures apart: no delete pass removes a valid entry
C27_NoValidDeleted ==
    [][\A th \in Threads :
         Pops(th) => \A k \in DOMAIN cache \ DOMAIN cache' :
                        ~cache_entry_is_valid(cache, k, now)]_vars

\* and no delete pass raises
C27_NoKeyError ==
    [][\A th \in Threads : Pops(th) => threads'[th].ret.kind = "return"]_vars

\* ---- C28 ---------------------------------------------------------------
\* C28: every entry the population phase of get_html_async writes is stored
\* under one of the requested keys and is produced by the treatment of that
\* requested key; no entry is created under a key that is not in the input
\* keys, such as the address a response reports after a redirect.
C28_RequestedKeys ==
    Populating
    => /\ Written \subseteq Range(op.urls)
       /\ \A i \in DOMAIN turns :
            turns[i] = "ok"
            => /\ work_queue[i] \in DOMAIN cache
               /\ cache[work_queue[i]][2].form \in ClassForms(FirstMatch(work_queue[i]))

\* Without a redirect the population phase does write under the requested
\* key, with that key's treatment
C28_NoRedirect ==
    Populating
    => \A i \in DOMAIN turns :
         (turns[i] = "ok" /\ TurnUrl(i) = work_queue[i])
         => /\ work_queue[i] \in DOMAIN cache
            /\ cache[work_queue[i]][2].form \in ClassForms(FirstMatch(work_queue[i]))

\* ---- C29 ---------------------------------------------------------------
\* C29: immediately after get_html or get_html_async writes an entry, for
\* every treatment and every random draw, the validity check at the write
\* time reports the entry valid.
C29_FreshValid ==
    [][\A k \in StepWrites : cache_entry_is_valid(cache', k, now')]_vars

\* The part about the student treatment: its fixed date, 20 September of
\* the year after the current academic year, is later than the write time
\* on every day of three years, and a student entry is valid when written
C29_StudentDate ==
    /\ \A t \in 0..(3 * DaysPerYear) : student_treatment(NoHtml, t, 0)[1] > t
    /\ [][\A k \in StepWrites :
            Classify(k) = "student" => cache_entry_is_valid(cache', k, now')]_vars

\* The other treatments: valid when written whenever the drawn lifetime is
\* not zero
C29_PositiveLifetime ==
    [][\A k \in StepWrites :
         cache'[k][1] # now' => cache_entry_is_valid(cache', k, now')]_vars

\* ---- C30 ---------------------------------------------------------------
\* The step is a get_html(key, use_cache=True) call of the caller
GetHtmlStep == pc = "idle" /\ budget' = budget - 1 /\ op'.name = "get_html" /\ op'.use_cache

\* The step is a next() on the generator of get_html_async
YieldStep == pc = "generator" /\ Len(out') = Len(out) + 1

\* The payload html the step serves for url is that of an entry valid at
\* the step's validity check, or of the entry the step writes from a 200
\* answer of the origin
Served(url, html) ==
    \/ /\ url \in DOMAIN cache
       /\ cache[url][1] > now'
       /\ html = cache[url][2]
    \/ /\ origin'[url] # NoResponse
       /\ ~origin'[url].err
       /\ origin'[url].status_code = 200
       /\ calls'[url] > 0
       /\ url \in DOMAIN cache'
       /\ \E d \in Draws : cache'[url] = Treatment(url, origin'[url].text, now', d)
       /\ html = cache'[url][2]

\* C30: with a single caller, a payload returned by get_html(key,
\* use_cache=True) or yielded by get_html_async comes from an entry that was
\* valid at that call's validity check or was written by that same call
\* after a successful origin fetch; an expired entry that stays in the
\* store is never returned.
C30_NoExpiredServed ==
    [][/\ (GetHtmlStep /\ ret'.kind = "return") => Served(op'.url, ret'.html)
       /\ (YieldStep /\ out'[Len(out')].kind = "return")
          => Served(urls[gen], out'[Len(out')].html)]_vars

\* get_html(key, use_cache=True) found an expired entry for key, fetched
\* and returned the new page, not the expired one
C30_Witness ==
    /\ CheckedEntry
    /\ ~ValidAtCall(op.url)
    /\ ret.kind = "return"
    /\ ret.html # cache0[op.url][2]
    /\ ret.html = cache[op.url][2]

\* The refetch of an expired entry failed: the entry is still in the store
\* and the call raised
C30_WitnessFailedRefetch ==
    /\ CheckedEntry
    /\ ~ValidAtCall(op.url)
    /\ ret.kind = "raise"
    /\ op.url \in DOMAIN cache
    /\ cache[op.url] = cache0[op.url]

\* A generator has yielded the page refetched for an expired entry that a
\* failed population turn had left in the store
C30_WitnessYield ==
    /\ BulkCall
    /\ \E i \in DOMAIN out :
         /\ out[i].kind = "return"
         /\ op.urls[i] \in DOMAIN cache0
         /\ out[i].html # cache0[op.urls[i]][2]

====
